---------------------------- MODULE Spec2Model ----------------------------
(***************************************************************************)
(* Model of the Tasks API (src/main.py): an in-memory list of task records *)
(* (_tasks) with list / create / read / update / delete request handlers.  *)
(*                                                                         *)
(* Representation.  Text that the code inspects character by character     *)
(* (title, description, q) is a sequence of one-character strings; tags,   *)
(* status and priority are only compared for equality and are strings.     *)
(* A date is a record [y, m, d].  Python's None and pydantic's "field not  *)
(* set" are one sentinel value per field type (Null..., Unset...), so that *)
(* every field keeps one type.  Ids are the ordinal of the uuid4() call    *)
(* that produced them; timestamps are small integers.                      *)
(*                                                                         *)
(* Response codes are those of the handler itself: 200 when it returns,    *)
(* 404 for its HTTPException, 422 when the request model rejects the       *)
(* input before the handler runs, 500 when the handler raises.             *)
(***************************************************************************)
EXTENDS Integers, Sequences, FiniteSets, TLC

VARIABLES
    tasks,      \* _tasks: the store, a sequence of Task records
    nextId,     \* ordinal of the next uuid4() call
    lastNow,    \* the value the latest datetime.utcnow() returned
    mono,       \* history: no clock read so far returned less than the one before
    deleted,    \* history: ids whose DELETE was answered 200
    ops,        \* number of requests started so far
    resp,       \* the latest request and its response
    pc,         \* per worker thread: where its handler stands
    req         \* per worker thread: the handler's local variables

vars == <<tasks, nextId, lastNow, mono, deleted, ops, resp, pc, req>>

-----------------------------------------------------------------------------
(* Bounds of the model *)

MaxOps == 2
MaxTime == 1
MaxStore == 2

\* what datetime.utcnow() may return: the wall clock, which can be set back
Times == 0..MaxTime

(* Program constants *)

MinTitleLen == 1
MaxTitleLen == 120
MinMonth == 1
MaxMonth == 12
MinYear == 1970
MaxYear == 2100

-----------------------------------------------------------------------------
(* Values *)

NullStr == <<"<null>">>
UnsetStr == <<"<unset>">>
NullLit == "<null>"
UnsetLit == "<unset>"
NullDate == [y |-> 0, m |-> 0, d |-> 0]
UnsetDate == [y |-> -1, m |-> 0, d |-> 0]
NullTags == <<"<null>">>
UnsetTags == <<"<unset>">>
NullInt == 0 - 1

Status == {"todo", "in_progress", "done"}
Priority == {"low", "medium", "high"}

Rep(c, n) == [i \in 1..n |-> c]

Lower(c) == CASE c = "A" -> "a" [] c = "B" -> "b" [] OTHER -> c

LowerStr(s) == [i \in 1..Len(s) |-> Lower(s[i])]

\* Python's  a in b  on str: a occurs in b as a contiguous run
Contains(b, a) ==
    \E k \in 0..(Len(b) - Len(a)) : \A i \in 1..Len(a) : b[k + i] = a[i]

InSeq(x, s) == \E i \in 1..Len(s) : s[i] = x

IsLeap(y) == (y % 4 = 0 /\ y % 100 # 0) \/ y % 400 = 0

DaysIn(y, m) ==
    IF m = 2 THEN (IF IsLeap(y) THEN 29 ELSE 28)
    ELSE IF m \in {4, 6, 9, 11} THEN 30 ELSE 31

\* what pydantic's date parsing accepts
IsDate(v) ==
    /\ v.y \in 1..9999
    /\ v.m \in 1..12
    /\ v.d \in 1..DaysIn(v.y, v.m)

Min(a, b) == IF a < b THEN a ELSE b
Max(a, b) == IF a > b THEN a ELSE b

-----------------------------------------------------------------------------
(* Request models *)

\* TaskCreate (= TaskBase): title required with 1..120 characters, the rest
\* defaulted; None passes only where the annotation is Optional.
ValidCreate(p) ==
    /\ p.title # UnsetStr /\ p.title # NullStr
    /\ Len(p.title) >= MinTitleLen /\ Len(p.title) <= MaxTitleLen
    /\ p.status = UnsetLit \/ p.status \in Status
    /\ p.priority = UnsetLit \/ p.priority \in Priority
    /\ p.due_date \in {UnsetDate, NullDate} \/ IsDate(p.due_date)
    /\ p.tags # NullTags

\* payload.dict() of a TaskCreate: every field, defaults filled in
CreateDict(p) ==
    [title |-> p.title,
     description |-> IF p.description = UnsetStr THEN <<>> ELSE p.description,
     status |-> IF p.status = UnsetLit THEN "todo" ELSE p.status,
     priority |-> IF p.priority = UnsetLit THEN "medium" ELSE p.priority,
     due_date |-> IF p.due_date = UnsetDate THEN NullDate ELSE p.due_date,
     tags |-> IF p.tags = UnsetTags THEN <<>> ELSE p.tags]

\* TaskUpdate: every field Optional, no length constraint on title
ValidUpdate(p) ==
    /\ p.status \in {UnsetLit, NullLit} \/ p.status \in Status
    /\ p.priority \in {UnsetLit, NullLit} \/ p.priority \in Priority
    /\ p.due_date \in {UnsetDate, NullDate} \/ IsDate(p.due_date)

NoPayload ==
    [title |-> UnsetStr, description |-> UnsetStr, status |-> UnsetLit,
     priority |-> UnsetLit, due_date |-> UnsetDate, tags |-> UnsetTags]

NoQuery ==
    [q |-> NullStr, status |-> NullLit, priority |-> NullLit,
     month |-> NullInt, year |-> NullInt, tag |-> NullLit]

-----------------------------------------------------------------------------
(* Store *)

\* a generator with too few distinct values: ids repeat
Uuid4Short(n) == ((n - 1) % 4) + 1

\* uuid4(): the n-th call returns a value no earlier call returned
Uuid4(n) == n

MkTask(id, now, d) ==
    [id |-> id, title |-> d.title, description |-> d.description,
     status |-> d.status, priority |-> d.priority, due_date |-> d.due_date,
     tags |-> d.tags, created_at |-> now, updated_at |-> now]

\* The sample texts of seed_mock are abbreviated to short character sequences.
Samples(today) ==
    << [title |-> <<"A", "b">>, description |-> <<"c">>, status |-> "todo",
        priority |-> "high", due_date |-> today, tags |-> <<"design", "ui">>],
       [title |-> <<"B">>, description |-> <<"a", "b">>, status |-> "in_progress",
        priority |-> "medium",
        due_date |-> [today EXCEPT !.d = Min(28, today.d + 2)],
        tags |-> <<"frontend">>],
       [title |-> <<"c">>, description |-> <<"d">>, status |-> "todo",
        priority |-> "low", due_date |-> NullDate, tags |-> <<"testing">>],
       [title |-> <<"d">>, description |-> <<"B">>, status |-> "done",
        priority |-> "medium",
        due_date |-> [today EXCEPT !.d = Max(1, today.d - 3)],
        tags |-> <<"devops">>] >>

SeedMock(today, now) ==
    [i \in 1..Len(Samples(today)) |-> MkTask(Uuid4(i), now, Samples(today)[i])]

\* the loop variable returned when nothing matched
FindTaskLoopVar(store, task_id) ==
    IF \E i \in 1..Len(store) : store[i].id = task_id
    THEN (CHOOSE i \in 1..Len(store) :
              /\ store[i].id = task_id
              /\ \A j \in 1..(i - 1) : store[j].id # task_id) - 1
    ELSE Len(store) - 1

\* find_task: index (from 0) of the first task with that id, -1 if none
FindTask(store, task_id) ==
    IF \E i \in 1..Len(store) : store[i].id = task_id
    THEN (CHOOSE i \in 1..Len(store) :
              /\ store[i].id = task_id
              /\ \A j \in 1..(i - 1) : store[j].id # task_id) - 1
    ELSE 0 - 1

\* the index taken as counting from 1
PopOffByOne(store, idx) ==
    [i \in 1..(Len(store) - 1) |-> IF i < idx THEN store[i] ELSE store[i + 1]]

\* list.pop(idx)
Pop(store, idx) ==
    [i \in 1..(Len(store) - 1) |-> IF i <= idx THEN store[i] ELSE store[i + 1]]

\* payload.dict() without exclude_unset: unset fields arrive as None
UpdatedAllFields(stored, p, now) ==
    [id |-> stored.id,
     title |-> IF p.title = UnsetStr THEN NullStr ELSE p.title,
     description |-> IF p.description = UnsetStr THEN NullStr ELSE p.description,
     status |-> IF p.status = UnsetLit THEN NullLit ELSE p.status,
     priority |-> IF p.priority = UnsetLit THEN NullLit ELSE p.priority,
     due_date |-> IF p.due_date = UnsetDate THEN NullDate ELSE p.due_date,
     tags |-> IF p.tags = UnsetTags THEN NullTags ELSE p.tags,
     created_at |-> stored.created_at,
     updated_at |-> now]

\* the wrong timestamp refreshed
UpdatedTouchesCreated(stored, p, now) ==
    [id |-> stored.id,
     title |-> IF p.title = UnsetStr THEN stored.title ELSE p.title,
     description |-> IF p.description = UnsetStr THEN stored.description ELSE p.description,
     status |-> IF p.status = UnsetLit THEN stored.status ELSE p.status,
     priority |-> IF p.priority = UnsetLit THEN stored.priority ELSE p.priority,
     due_date |-> IF p.due_date = UnsetDate THEN stored.due_date ELSE p.due_date,
     tags |-> IF p.tags = UnsetTags THEN stored.tags ELSE p.tags,
     created_at |-> now,
     updated_at |-> stored.updated_at]

\* payload.dict(exclude_unset=True) merged by stored.copy(update={..., "updated_at": now})
Updated(stored, p, now) ==
    [id |-> stored.id,
     title |-> IF p.title = UnsetStr THEN stored.title ELSE p.title,
     description |-> IF p.description = UnsetStr THEN stored.description ELSE p.description,
     status |-> IF p.status = UnsetLit THEN stored.status ELSE p.status,
     priority |-> IF p.priority = UnsetLit THEN stored.priority ELSE p.priority,
     due_date |-> IF p.due_date = UnsetDate THEN stored.due_date ELSE p.due_date,
     tags |-> IF p.tags = UnsetTags THEN stored.tags ELSE p.tags,
     created_at |-> stored.created_at,
     updated_at |-> now]

-----------------------------------------------------------------------------
(* list_tasks *)

\* Query(...) constraints of list_tasks
ValidQuery(qr) ==
    /\ qr.status = NullLit \/ qr.status \in Status
    /\ qr.priority = NullLit \/ qr.priority \in Priority
    /\ qr.month = NullInt \/ (qr.month >= MinMonth /\ qr.month <= MaxMonth)
    /\ qr.year = NullInt \/ (qr.year >= MinYear /\ qr.year <= MaxYear)

\* Python truthiness of the optional parameters
TruthyStr(s) == s # NullStr /\ s # <<>>
TruthyLit(s) == s # NullLit /\ s # ""
TruthyInt(n) == n # NullInt /\ n # 0

\* ql in t.title.lower() or (t.description or "").lower().find(ql) != -1
MatchQ(t, ql) ==
    \/ Contains(LowerStr(t.title), ql)
    \/ Contains(LowerStr(IF t.description = NullStr THEN <<>> ELSE t.description), ql)

AfterQ(store, qr) ==
    IF TruthyStr(qr.q)
    THEN SelectSeq(store, LAMBDA t : MatchQ(t, LowerStr(qr.q)))
    ELSE store

AfterStatus(store, qr) ==
    IF TruthyLit(qr.status)
    THEN SelectSeq(AfterQ(store, qr), LAMBDA t : t.status = qr.status)
    ELSE AfterQ(store, qr)

AfterPriority(store, qr) ==
    IF TruthyLit(qr.priority)
    THEN SelectSeq(AfterStatus(store, qr), LAMBDA t : t.priority = qr.priority)
    ELSE AfterStatus(store, qr)

AfterTag(store, qr) ==
    IF TruthyLit(qr.tag)
    THEN SelectSeq(AfterPriority(store, qr), LAMBDA t : InSeq(qr.tag, t.tags))
    ELSE AfterPriority(store, qr)

\* the year-only branch left out
AfterDateNoYearOnly(store, qr) ==
    IF TruthyInt(qr.month)
    THEN SelectSeq(AfterTag(store, qr), LAMBDA t :
             /\ t.due_date # NullDate
             /\ t.due_date.m = qr.month
             /\ (~TruthyInt(qr.year) \/ t.due_date.y = qr.year))
    ELSE AfterTag(store, qr)

AfterDate(store, qr) ==
    IF TruthyInt(qr.month)
    THEN SelectSeq(AfterTag(store, qr), LAMBDA t :
             /\ t.due_date # NullDate
             /\ t.due_date.m = qr.month
             /\ (~TruthyInt(qr.year) \/ t.due_date.y = qr.year))
    ELSE IF TruthyInt(qr.year)
    THEN SelectSeq(AfterTag(store, qr), LAMBDA t :
             t.due_date # NullDate /\ t.due_date.y = qr.year)
    ELSE AfterTag(store, qr)

\* the handler raises: None.lower() on a title (evaluated for every task when
\* q is given), or  tag in None  on the tags of a task that passed the
\* earlier filters
ListRaises(store, qr) ==
    \/ TruthyStr(qr.q) /\ \E i \in 1..Len(store) : store[i].title = NullStr
    \/ /\ TruthyLit(qr.tag)
       /\ \E i \in 1..Len(AfterPriority(store, qr)) :
              AfterPriority(store, qr)[i].tags = NullTags

ListResult(store, qr) == AfterDate(store, qr)

-----------------------------------------------------------------------------
(* Inputs *)

Threads == {"w1", "w2"}

\* date.today() when the process starts
Today == [y |-> 2024, m |-> 6, d |-> 30]

LongTitle == Rep("a", MaxTitleLen + 1)

CreateInputs ==
    { NoPayload,
      [NoPayload EXCEPT !.title = <<>>],
      [NoPayload EXCEPT !.title = LongTitle],
      [NoPayload EXCEPT !.title = <<"W">>, !.priority = "high"],
      [NoPayload EXCEPT !.title = <<"W">>, !.due_date = [y |-> 2023, m |-> 2, d |-> 29]],
      [NoPayload EXCEPT !.title = <<"a", "B">>, !.description = NullStr,
                        !.status = "done", !.priority = "low",
                        !.due_date = [y |-> 2025, m |-> 6, d |-> 30],
                        !.tags = <<"x", "x">>] }

UpdateInputs ==
    { NoPayload,
      [NoPayload EXCEPT !.title = <<>>],
      [NoPayload EXCEPT !.title = LongTitle],
      [NoPayload EXCEPT !.title = NullStr, !.status = NullLit,
                        !.priority = NullLit, !.tags = NullTags],
      [NoPayload EXCEPT !.title = <<"x">>, !.status = "done", !.tags = <<>>],
      [NoPayload EXCEPT !.description = NullStr, !.priority = "high",
                        !.due_date = [y |-> 2024, m |-> 2, d |-> 29]],
      [NoPayload EXCEPT !.status = "bogus"] }

ListInputs ==
    { NoQuery,
      [NoQuery EXCEPT !.q = <<"B">>],
      [NoQuery EXCEPT !.status = "todo", !.tag = "ui"],
      [NoQuery EXCEPT !.month = 6, !.year = 2024],
      [NoQuery EXCEPT !.month = 13] }

-----------------------------------------------------------------------------
(* State *)

NoReq == [op |-> "none", task_id |-> 0, idx |-> 0 - 1, payload |-> NoPayload,
          stored |-> <<>>]

Response(op, task_id, code, payload, query, body) ==
    [op |-> op, task_id |-> task_id, code |-> code, payload |-> payload,
     query |-> query, body |-> body]

Init ==
    /\ \E now \in Times :
          /\ tasks = SeedMock(Today, now)
          /\ lastNow = now
    /\ nextId = Len(tasks) + 1
    /\ mono = TRUE
    /\ deleted = {}
    /\ ops = 0
    /\ resp = Response("none", 0, 0, NoPayload, NoQuery, <<>>)
    /\ pc = [w \in Threads |-> "idle"]
    /\ req = [w \in Threads |-> NoReq]

-----------------------------------------------------------------------------
(* Handlers, each run to completion *)

ListTasks(qr) ==
    /\ ops < MaxOps
    /\ ops' = ops + 1
    /\ resp' = IF ~ValidQuery(qr)
               THEN Response("list", 0, 422, NoPayload, qr, <<>>)
               ELSE IF ListRaises(tasks, qr)
               THEN Response("list", 0, 500, NoPayload, qr, <<>>)
               ELSE Response("list", 0, 200, NoPayload, qr, ListResult(tasks, qr))
    /\ UNCHANGED <<tasks, nextId, lastNow, mono, deleted, pc, req>>

CreateTask(p, now) ==
    /\ ops < MaxOps
    /\ ops' = ops + 1
    /\ IF ~ValidCreate(p)
       THEN /\ resp' = Response("create", 0, 422, p, NoQuery, <<>>)
            /\ UNCHANGED <<tasks, nextId, lastNow, mono>>
       ELSE LET new == MkTask(Uuid4(nextId), now, CreateDict(p)) IN
            /\ tasks' = Append(tasks, new)
            /\ nextId' = nextId + 1
            /\ lastNow' = now
            /\ mono' = (mono /\ now >= lastNow)
            /\ resp' = Response("create", new.id, 200, p, NoQuery, <<new>>)
    /\ UNCHANGED <<deleted, pc, req>>

GetTask(task_id) ==
    /\ ops < MaxOps
    /\ ops' = ops + 1
    /\ LET idx == FindTask(tasks, task_id) IN
       resp' = IF idx = 0 - 1
               THEN Response("get", task_id, 404, NoPayload, NoQuery, <<>>)
               ELSE Response("get", task_id, 200, NoPayload, NoQuery, <<tasks[idx + 1]>>)
    /\ UNCHANGED <<tasks, nextId, lastNow, mono, deleted, pc, req>>

UpdateTask(task_id, p, now) ==
    /\ ops < MaxOps
    /\ ops' = ops + 1
    /\ LET idx == FindTask(tasks, task_id) IN
       IF ~ValidUpdate(p)
       THEN /\ resp' = Response("update", task_id, 422, p, NoQuery, <<>>)
            /\ UNCHANGED <<tasks, lastNow, mono>>
       ELSE IF idx = 0 - 1
       THEN /\ resp' = Response("update", task_id, 404, p, NoQuery, <<>>)
            /\ UNCHANGED <<tasks, lastNow, mono>>
       ELSE LET updated == Updated(tasks[idx + 1], p, now) IN
            /\ tasks' = [tasks EXCEPT ![idx + 1] = updated]
            /\ lastNow' = now
            /\ mono' = (mono /\ now >= lastNow)
            /\ resp' = Response("update", task_id, 200, p, NoQuery, <<updated>>)
    /\ UNCHANGED <<nextId, deleted, pc, req>>

DeleteTask(task_id) ==
    /\ ops < MaxOps
    /\ ops' = ops + 1
    /\ LET idx == FindTask(tasks, task_id) IN
       IF idx = 0 - 1
       THEN /\ resp' = Response("delete", task_id, 404, NoPayload, NoQuery, <<>>)
            /\ UNCHANGED <<tasks, deleted>>
       ELSE /\ tasks' = Pop(tasks, idx)
            /\ deleted' = deleted \cup {task_id}
            /\ resp' = Response("delete", task_id, 200, NoPayload, NoQuery, <<>>)
    /\ UNCHANGED <<nextId, lastNow, mono, pc, req>>

\* ids a request may name: every id issued so far and one never issued
RequestIds == {Uuid4(n) : n \in 1..nextId}

Next ==
    \/ \E qr \in ListInputs : ListTasks(qr)
    \/ \E p \in CreateInputs, now \in Times : CreateTask(p, now)
    \/ \E task_id \in RequestIds : GetTask(task_id)
    \/ \E task_id \in RequestIds, p \in UpdateInputs, now \in Times :
           UpdateTask(task_id, p, now)
    \/ \E task_id \in RequestIds : DeleteTask(task_id)

Spec == Init /\ [][Next]_vars

-----------------------------------------------------------------------------
(* Properties of the sequential service (Spec) *)

Ids(store) == {store[i].id : i \in 1..Len(store)}

Issued == {Uuid4(n) : n \in 1..(nextId - 1)}

Pos(store, task_id) == FindTask(store, task_id) + 1

Answered(op, code) == resp'.op = op /\ resp'.code = code

\* C1: every stored task has a title of 1..120 characters, and no create or
\* update that provides an empty, over-long or null title is accepted.
C1_TitleNeverEmpty ==
    /\ \A i \in 1..Len(tasks) :
          /\ tasks[i].title # NullStr
          /\ Len(tasks[i].title) >= MinTitleLen
          /\ Len(tasks[i].title) <= MaxTitleLen
    /\ (resp.op \in {"create", "update"} /\ resp.payload.title \in {<<>>, NullStr, LongTitle})
          => resp.code # 200

\* C3: no two tasks in the store share an id; the task a create returns has
\* an id no other stored task has, and an update answers with the id it was
\* asked to update.
C3_UniqueIds ==
    /\ \A i, j \in 1..Len(tasks) : tasks[i].id = tasks[j].id => i = j
    /\ (resp.op = "create" /\ resp.code = 200) =>
          /\ tasks[Len(tasks)].id = resp.task_id
          /\ \A i \in 1..(Len(tasks) - 1) : tasks[i].id # resp.task_id
    /\ (resp.op = "update" /\ resp.code = 200) => resp.body[1].id = resp.task_id

C3_Witness ==
    /\ resp.op = "create" /\ resp.code = 200
    /\ deleted # {}
    /\ Len(tasks) = Len(Samples(Today))

\* the fields an update payload can carry keep their value when unset and
\* take the payload's value when set
FieldsApplied(old, new, p) ==
    /\ new.title = (IF p.title = UnsetStr THEN old.title ELSE p.title)
    /\ new.description = (IF p.description = UnsetStr THEN old.description ELSE p.description)
    /\ new.status = (IF p.status = UnsetLit THEN old.status ELSE p.status)
    /\ new.priority = (IF p.priority = UnsetLit THEN old.priority ELSE p.priority)
    /\ new.due_date = (IF p.due_date = UnsetDate THEN old.due_date ELSE p.due_date)
    /\ new.tags = (IF p.tags = UnsetTags THEN old.tags ELSE p.tags)

UpdateFrame ==
    LET k == Pos(tasks, resp'.task_id) IN
    /\ k >= 1
    /\ Len(tasks') = Len(tasks)
    /\ \A j \in 1..Len(tasks) : j # k => tasks'[j] = tasks[j]
    /\ tasks'[k].id = tasks[k].id
    /\ tasks'[k].created_at = tasks[k].created_at
    /\ FieldsApplied(tasks[k], tasks'[k], resp'.payload)
    /\ resp'.body = <<tasks'[k]>>

UpdateAdvances ==
    LET k == Pos(tasks, resp'.task_id) IN tasks'[k].updated_at >= tasks[k].updated_at

\* C4 as stated: a successful update sets exactly the payload's fields, leaves
\* the rest of the task, its position and every other task unchanged, and
\* its updated_at is >= the previous updated_at.
C4_UpdateFrameAndClock ==
    [][Answered("update", 200) => (UpdateFrame /\ UpdateAdvances)]_vars

\* C4 amended: the same, with updated_at >= the previous updated_at whenever
\* no clock read so far returned less than the read before it.
C4_UpdateFrame ==
    [][Answered("update", 200) => (UpdateFrame /\ (mono' => UpdateAdvances))]_vars

C4_Witness ==
    /\ resp.op = "update" /\ resp.code = 200 /\ mono
    /\ resp.payload.tags = <<>> /\ resp.payload.description = UnsetStr
    /\ resp.body[1].tags = <<>> /\ resp.body[1].description # <<>>
    /\ resp.body[1].updated_at > resp.body[1].created_at

DeleteRemovesOne ==
    /\ Pos(tasks, resp'.task_id) >= 1
    /\ Len(tasks') = Len(tasks) - 1
    /\ tasks' = SelectSeq(tasks, LAMBDA t : t.id # resp'.task_id)

DeletedGone == (deleted \cap Ids(tasks)) = {}

CreatedIsFound ==
    \A id \in Issued \ deleted :
        Pos(tasks, id) >= 1 /\ tasks[Pos(tasks, id)].id = id

\* C5 as stated: a delete of a stored id removes exactly that task and keeps
\* the order of the others; afterwards every read, update or delete of that
\* id answers NotFound; an id not yet deleted is found.
C5_DeletedStaysGone ==
    [][/\ Answered("delete", 200) => DeleteRemovesOne
       /\ (resp'.op \in {"get", "update", "delete"} /\ resp'.task_id \in deleted)
              => resp'.code = 404
       /\ DeletedGone'
       /\ CreatedIsFound /\ CreatedIsFound']_vars

\* C5 amended: as stated, except that an update of a deleted id whose payload
\* is invalid answers ValidationError (the payload is validated first).
C5_DeletedStaysGoneValid ==
    [][/\ Answered("delete", 200) => DeleteRemovesOne
       /\ (resp'.op \in {"get", "update", "delete"} /\ resp'.task_id \in deleted)
              => IF resp'.op = "update" /\ ~ValidUpdate(resp'.payload)
                 THEN resp'.code = 422 ELSE resp'.code = 404
       /\ DeletedGone'
       /\ CreatedIsFound /\ CreatedIsFound']_vars

C5_Witness ==
    /\ resp.op = "get" /\ resp.code = 404
    /\ resp.task_id \in deleted
    /\ Len(tasks) = Len(Samples(Today)) - 1

\* C6 as stated: a read, update or delete of an id no stored task has answers
\* NotFound and leaves the store as it was.
C6_UnknownIdNotFound ==
    [][(resp'.op \in {"get", "update", "delete"} /\ resp'.task_id \notin Ids(tasks))
          => (resp'.code = 404 /\ tasks' = tasks)]_vars

\* C6 amended: as stated, except that an update whose payload is invalid
\* answers ValidationError instead (the payload is validated first); the store
\* is left as it was in every case.
C6_UnknownIdNotFoundValid ==
    [][(resp'.op \in {"get", "update", "delete"} /\ resp'.task_id \notin Ids(tasks))
          => /\ tasks' = tasks
             /\ IF resp'.op = "update" /\ ~ValidUpdate(resp'.payload)
                THEN resp'.code = 422 ELSE resp'.code = 404]_vars

C6_Witness ==
    /\ resp.op = "update" /\ resp.code = 404
    /\ resp.task_id \notin Ids(tasks)
    /\ resp.payload.title = <<"x">>

\* what C7 says a list returns: the tasks that satisfy every filter given
ClaimedMatch(t, qr) ==
    /\ qr.q # NullStr =>
          \/ t.title # NullStr /\ Contains(LowerStr(t.title), LowerStr(qr.q))
          \/ t.description # NullStr /\ Contains(LowerStr(t.description), LowerStr(qr.q))
    /\ qr.status # NullLit => t.status = qr.status
    /\ qr.priority # NullLit => t.priority = qr.priority
    /\ qr.tag # NullLit => (t.tags # NullTags /\ InSeq(qr.tag, t.tags))

\* C7: a list with any of q, status, priority, tag answers with exactly the
\* stored tasks that satisfy every filter given, in store order.
C7_ListIsFilter ==
    (resp.op = "list" /\ ValidQuery(resp.query)
        /\ resp.query.month = NullInt /\ resp.query.year = NullInt)
    => /\ resp.code = 200
       /\ resp.body = SelectSeq(tasks, LAMBDA t : ClaimedMatch(t, resp.query))

\* C9: while no clock read returned less than the read before it, every
\* stored task has created_at <= updated_at; a created task is stored with
\* created_at = updated_at.
C9_CreatedBeforeUpdated ==
    /\ mono => \A i \in 1..Len(tasks) : tasks[i].created_at <= tasks[i].updated_at
    /\ (resp.op = "create" /\ resp.code = 200) =>
          /\ resp.body[1].created_at = resp.body[1].updated_at
          /\ tasks[Len(tasks)] = resp.body[1]

C9_Witness ==
    /\ mono
    /\ resp.op = "update" /\ resp.code = 200
    /\ resp.body[1].created_at < resp.body[1].updated_at
    /\ \E i \in 1..Len(tasks) : tasks[i] = resp.body[1]

\* C10: every stored task has a status and a priority of its enumeration and
\* a tag list that is not null.
C10_EnumsNeverNull ==
    \A i \in 1..Len(tasks) :
        /\ tasks[i].status \in Status
        /\ tasks[i].priority \in Priority
        /\ tasks[i].tags # NullTags

-----------------------------------------------------------------------------
(* list_tasks as a function of the store and the query (SpecList) *)

ListDates ==
    { NullDate,
      [y |-> 2024, m |-> 6, d |-> 15], [y |-> 2025, m |-> 6, d |-> 1],
      [y |-> 2024, m |-> 5, d |-> 31], [y |-> 1970, m |-> 1, d |-> 1],
      [y |-> 2100, m |-> 12, d |-> 31] }

ListSamples ==
    { [title |-> <<"a">>, description |-> <<>>, status |-> st, priority |-> "medium",
       due_date |-> dt, tags |-> <<>>] : st \in {"todo", "done"}, dt \in ListDates }

ListStores == UNION {[1..n -> ListSamples] : n \in 0..MaxStore}

DateQueries ==
    { [NoQuery EXCEPT !.month = mo, !.year = yr, !.status = st] :
        mo \in {NullInt, 0, 1, 5, 6, 12, 13},
        yr \in {NullInt, 1969, 1970, 2024, 2025, 2100, 2101},
        st \in {NullLit, "done"} }

InitList ==
    /\ \E samples \in ListStores :
          tasks = [i \in 1..Len(samples) |-> MkTask(Uuid4(i), 0, samples[i])]
    /\ nextId = Len(tasks) + 1
    /\ lastNow = 0
    /\ mono = TRUE
    /\ deleted = {}
    /\ ops = 0
    /\ resp = Response("none", 0, 0, NoPayload, NoQuery, <<>>)
    /\ pc = [w \in Threads |-> "idle"]
    /\ req = [w \in Threads |-> NoReq]

ListOnce(qr) == resp.op = "none" /\ ListTasks(qr)

NextList == \E qr \in DateQueries : ListOnce(qr)

SpecList == InitList /\ [][NextList]_vars

\* what C8 says of a task under the date filters given
ClaimedDate(t, qr) ==
    /\ t.due_date # NullDate
    /\ qr.month # NullInt => t.due_date.m = qr.month
    /\ qr.year # NullInt => t.due_date.y = qr.year

\* C8: with month in 1..12 and year in 1970..2100, a list by month, by month
\* and year, or by year answers with exactly the tasks (of the status asked
\* for, if any) whose due_date has that month and/or year; a task without a
\* due_date is never among them.
C8_DateFilter ==
    (/\ resp.op = "list"
     /\ resp.query.month \in {NullInt} \cup (MinMonth..MaxMonth)
     /\ resp.query.year \in {NullInt} \cup (MinYear..MaxYear)
     /\ resp.query.month # NullInt \/ resp.query.year # NullInt)
    => /\ resp.code = 200
       /\ resp.body = SelectSeq(tasks, LAMBDA t :
              /\ resp.query.status # NullLit => t.status = resp.query.status
              /\ ClaimedDate(t, resp.query))
       /\ \A i \in 1..Len(resp.body) : resp.body[i].due_date # NullDate

C8_Witness ==
    /\ resp.op = "list" /\ resp.code = 200
    /\ resp.query.month = NullInt /\ resp.query.year = 2024
    /\ Len(resp.body) = 1 /\ Len(tasks) = 2
    /\ resp.body[1] = tasks[2]
    /\ tasks[1].due_date # NullDate

-----------------------------------------------------------------------------
(* The handlers as the worker threads run them (SpecConc): a sync handler   *)
(* runs in a thread of the pool, so between its find_task, its read of     *)
(* _tasks[idx] and its write or pop at idx other handlers may run.          *)

Reply(r) ==
    /\ resp' = r
    /\ UNCHANGED <<tasks, nextId, lastNow, mono, deleted>>

Finish(w) ==
    /\ pc' = [pc EXCEPT ![w] = "idle"]
    /\ req' = [req EXCEPT ![w] = NoReq]

ThreadCreate(w, p, now) ==
    /\ pc[w] = "idle"
    /\ CreateTask(p, now)

\* update_task up to  idx = find_task(task_id)
UpdateLookup(w, task_id, p) ==
    /\ pc[w] = "idle"
    /\ ops < MaxOps
    /\ ops' = ops + 1
    /\ LET idx == FindTask(tasks, task_id) IN
       IF ~ValidUpdate(p)
       THEN Reply(Response("update", task_id, 422, p, NoQuery, <<>>))
            /\ UNCHANGED <<pc, req>>
       ELSE IF idx = 0 - 1
       THEN Reply(Response("update", task_id, 404, p, NoQuery, <<>>))
            /\ UNCHANGED <<pc, req>>
       ELSE /\ pc' = [pc EXCEPT ![w] = "update_read"]
            /\ req' = [req EXCEPT ![w] = [op |-> "update", task_id |-> task_id,
                                          idx |-> idx, payload |-> p, stored |-> <<>>]]
            /\ UNCHANGED <<tasks, nextId, lastNow, mono, deleted, resp>>

\* stored = _tasks[idx]
UpdateRead(w) ==
    /\ pc[w] = "update_read"
    /\ UNCHANGED ops
    /\ IF req[w].idx >= Len(tasks)
       THEN Reply(Response("update", req[w].task_id, 500, req[w].payload, NoQuery, <<>>))
            /\ Finish(w)
       ELSE /\ pc' = [pc EXCEPT ![w] = "update_write"]
            /\ req' = [req EXCEPT ![w].stored = <<tasks[req[w].idx + 1]>>]
            /\ UNCHANGED <<tasks, nextId, lastNow, mono, deleted, resp>>

\* updated = stored.copy(...); _tasks[idx] = updated
UpdateWrite(w, now) ==
    /\ pc[w] = "update_write"
    /\ UNCHANGED <<ops, nextId, deleted>>
    /\ Finish(w)
    /\ lastNow' = now
    /\ mono' = (mono /\ now >= lastNow)
    /\ LET updated == Updated(req[w].stored[1], req[w].payload, now) IN
       IF req[w].idx >= Len(tasks)
       THEN /\ resp' = Response("update", req[w].task_id, 500, req[w].payload, NoQuery, <<>>)
            /\ UNCHANGED tasks
       ELSE /\ tasks' = [tasks EXCEPT ![req[w].idx + 1] = updated]
            /\ resp' = Response("update", req[w].task_id, 200, req[w].payload,
                                NoQuery, <<updated>>)

\* delete_task up to  idx = find_task(task_id)
DeleteLookup(w, task_id) ==
    /\ pc[w] = "idle"
    /\ ops < MaxOps
    /\ ops' = ops + 1
    /\ LET idx == FindTask(tasks, task_id) IN
       IF idx = 0 - 1
       THEN Reply(Response("delete", task_id, 404, NoPayload, NoQuery, <<>>))
            /\ UNCHANGED <<pc, req>>
       ELSE /\ pc' = [pc EXCEPT ![w] = "delete_pop"]
            /\ req' = [req EXCEPT ![w] = [op |-> "delete", task_id |-> task_id,
                                          idx |-> idx, payload |-> NoPayload,
                                          stored |-> <<>>]]
            /\ UNCHANGED <<tasks, nextId, lastNow, mono, deleted, resp>>

\* _tasks.pop(idx)
DeletePop(w) ==
    /\ pc[w] = "delete_pop"
    /\ UNCHANGED <<ops, nextId, lastNow, mono>>
    /\ Finish(w)
    /\ IF req[w].idx >= Len(tasks)
       THEN /\ resp' = Response("delete", req[w].task_id, 500, NoPayload, NoQuery, <<>>)
            /\ UNCHANGED <<tasks, deleted>>
       ELSE /\ tasks' = Pop(tasks, req[w].idx)
            /\ deleted' = deleted \cup {req[w].task_id}
            /\ resp' = Response("delete", req[w].task_id, 200, NoPayload, NoQuery, <<>>)

NextConc ==
    \E w \in Threads :
        \/ \E p \in CreateInputs, now \in Times : ThreadCreate(w, p, now)
        \/ \E task_id \in RequestIds, p \in UpdateInputs : UpdateLookup(w, task_id, p)
        \/ UpdateRead(w)
        \/ \E now \in Times : UpdateWrite(w, now)
        \/ \E task_id \in RequestIds : DeleteLookup(w, task_id)
        \/ DeletePop(w)

SpecConc == Init /\ [][NextConc]_vars

Wrote(w) == pc[w] = "update_write" /\ pc'[w] = "idle" /\ resp'.code = 200

Popped(w) == pc[w] = "delete_pop" /\ pc'[w] = "idle" /\ resp'.code = 200

\* C2: with requests interleaved, a handler's lookup and its write or pop at
\* the index found act as one step: a write lands on the task asked for and
\* changes only the payload's fields of that task's current value (no update
\* is lost), and a pop removes the task asked for and no other.
C2_LookupMutateAtomic ==
    [][\A w \in Threads :
          /\ Wrote(w) =>
                /\ tasks[req[w].idx + 1].id = req[w].task_id
                /\ \A j \in 1..Len(tasks) : j # req[w].idx + 1 => tasks'[j] = tasks[j]
                /\ FieldsApplied(tasks[req[w].idx + 1], tasks'[req[w].idx + 1],
                                 req[w].payload)
          /\ Popped(w) =>
                /\ tasks[req[w].idx + 1].id = req[w].task_id
                /\ tasks' = SelectSeq(tasks, LAMBDA t : t.id # req[w].task_id)]_vars

=============================================================================
